---- MODULE Spec2Model ----
(***************************************************************************)
(* A model of go-lxc's lxc-binding.go: the reference-counted container     *)
(* handle (NewContainer / Acquire / Release), container discovery          *)
(* (ContainerNames, Containers and the defined / active variants), and the *)
(* version gate (Version, VersionAtLeast, RuntimeLiblxcVersionAtLeast,     *)
(* HasAPIExtension).                                                       *)
(*                                                                         *)
(* Three specifications share the module:                                  *)
(*   Spec           concurrent Acquire / Release callers on one handle     *)
(*   SpecVersion    the version comparators and HasAPIExtension            *)
(*   SpecDiscovery  the name listings and the handle listings              *)
(***************************************************************************)
EXTENDS Integers, Sequences, FiniteSets, TLC

VARIABLES
    \* ---- one container handle shared by concurrent callers (Spec)
    mu,          \* c.mu, a sync.RWMutex: [readers: set of callers, writer: caller or 0]
    numthreads,  \* the native object's reference count, owned by the runtime
    destroyed,   \* the native object has been freed
    frees,       \* how many times the native object has been freed
    released,    \* the handle's "released" mark
    pc,          \* each caller's position
    ret,         \* each caller's last return value: "none", "true", "false"
    lastop,      \* each caller's current or last operation
    holds,       \* references each caller owns, by the return values it saw
    calls,       \* operations each caller has started
    \* ---- one call of a version function (SpecVersion)
    vfn,         \* the function called
    vst,         \* how the version string was put together: parts, marker, extra
    vversion,    \* the version string: the argument, or what lxc_get_version() reports
    vreq,        \* the requested <<major, minor, micro>>
    vbuild,      \* LXC_DEVEL and LXC_VERSION_MAJOR / MINOR / MICRO of the build
    vgate,       \* what HasAPIExtension's version check returned
    vresult,     \* the call's return value: "none" before it returns
    queryCalls,  \* calls of the runtime's go_lxc_has_api_extension
    \* ---- one listing call and the handles it returned (SpecDiscovery)
    dfn,         \* the function called
    dpath,       \* its lxcpath arguments
    dphase,      \* "start" before the call, "done" after it
    dcalled,     \* the runtime listing primitive it called, and the path it passed
    dcount,      \* the count the primitive reported
    dlisted,     \* the names the primitive filled in
    dmade,       \* for each listed name, whether lxc_container_new succeeded
    dnames,      \* the names the call returned
    containers,  \* the handles the call returned
    dnative,     \* for each listed name, its native object's reference count
    dfreed,      \* for each listed name, how often its native object was freed
    dreleased,   \* for each returned handle, whether its Release has returned nil
    dpanic       \* the call panicked

hvars == <<mu, numthreads, destroyed, frees, released, pc, ret, lastop, holds, calls>>

vvars == <<vfn, vst, vversion, vreq, vbuild, vgate, vresult, queryCalls>>

dvars == <<dfn, dpath, dphase, dcalled, dcount, dlisted, dmade, dnames, containers,
           dnative, dfreed, dreleased, dpanic>>

vars == <<hvars, vvars, dvars>>

(***************************************************************************)
(* Bounds of the handle model.                                             *)
(***************************************************************************)
NumCallers == 3
MaxCalls == 3

Callers == 1..NumCallers

RECURSIVE SumOver(_, _)
SumOver(f, S) ==
    IF S = {} THEN 0
    ELSE LET x == CHOOSE y \in S : TRUE
         IN  f[x] + SumOver(f, S \ {x})

(***************************************************************************)
(* sync.RWMutex as Acquire and Release use it.  Lock first announces the   *)
(* writer (which holds back later readers and writers), then waits for the *)
(* readers already inside to leave.                                        *)
(***************************************************************************)
RLockReady(m) == m.writer = 0

LockReady(m) == m.writer = 0

\* Acquire, with its c.mu.RLock() left out
AcquireCanEnterUnlocked(m) == TRUE

\* c.mu.RLock() in Acquire: the caller enters once no writer holds or awaits the lock
AcquireCanEnter(m) == RLockReady(m)

(***************************************************************************)
(* The runtime's reference counting on the native object.                  *)
(* lxc_container_get: 1 and one more reference on a live object, 0 and no  *)
(* change on a destroyed one.  lxc_container_put: one reference less; the  *)
(* last one frees the object (1), otherwise 0.                             *)
(***************************************************************************)
lxc_container_get(n, dead) ==
    IF dead \/ n < 1
    THEN [rc |-> 0, n |-> n]
    ELSE [rc |-> 1, n |-> n + 1]

lxc_container_put(n) ==
    IF n - 1 < 1
    THEN [rc |-> 1, n |-> n - 1, freed |-> TRUE]
    ELSE [rc |-> 0, n |-> n - 1, freed |-> FALSE]

\* (c *Container) Release(), inside its c.mu.Lock(): a handle marked released is
\* refused; otherwise one reference is given back, and the handle is marked released
\* when that was the last one
ContainerRelease(rel, n) ==
    IF rel
    THEN [err |-> "ErrReleaseFailed", n |-> n, freed |-> FALSE, released |-> TRUE]
    ELSE LET r == lxc_container_put(n)
         IN  [err |-> "nil", n |-> r.n, freed |-> r.freed, released |-> r.freed]

\* Acquire reporting every non-negative return of the runtime as success
AcquireResultNonNegative(rc) == rc >= 0

\* Acquire reporting the runtime's 0 as success
AcquireResultZero(rc) == rc = 0

\* return C.lxc_container_get(c.container) == 1
AcquireResult(rc) == rc = 1

\* Release(c): return c.Release() == nil
ReleaseResult(err) == err = "nil"

Bool2Str(b) == IF b THEN "true" ELSE "false"

(***************************************************************************)
(* Init: the handle right after a successful NewContainer; the creator     *)
(* (caller 1) owns the one reference.                                      *)
(***************************************************************************)
InitHandle ==
    /\ mu = [readers |-> {}, writer |-> 0]
    /\ numthreads = 1
    /\ destroyed = FALSE
    /\ frees = 0
    /\ released = FALSE
    /\ pc = [p \in Callers |-> "idle"]
    /\ ret = [p \in Callers |-> "none"]
    /\ lastop = [p \in Callers |-> "none"]
    /\ holds = [p \in Callers |-> IF p = 1 THEN 1 ELSE 0]
    /\ calls = [p \in Callers |-> 0]

(***************************************************************************)
(* Acquire(c)                                                              *)
(***************************************************************************)
AcquireEnter(p) ==
    /\ pc[p] = "idle"
    /\ calls[p] < MaxCalls
    /\ AcquireCanEnter(mu)
    /\ mu' = [mu EXCEPT !.readers = @ \cup {p}]
    /\ pc' = [pc EXCEPT ![p] = "acq_locked"]
    /\ ret' = [ret EXCEPT ![p] = "none"]
    /\ lastop' = [lastop EXCEPT ![p] = "Acquire"]
    /\ calls' = [calls EXCEPT ![p] = @ + 1]
    /\ UNCHANGED <<numthreads, destroyed, frees, released, holds>>
    /\ UNCHANGED <<vvars, dvars>>

AcquireGet(p) ==
    /\ pc[p] = "acq_locked"
    /\ LET g == lxc_container_get(numthreads, destroyed)
       IN  /\ numthreads' = g.n
           /\ ret' = [ret EXCEPT ![p] = Bool2Str(AcquireResult(g.rc))]
    /\ pc' = [pc EXCEPT ![p] = "acq_ret"]
    /\ UNCHANGED <<mu, destroyed, frees, released, lastop, holds, calls>>
    /\ UNCHANGED <<vvars, dvars>>

AcquireExit(p) ==
    /\ pc[p] = "acq_ret"
    /\ mu' = [mu EXCEPT !.readers = @ \ {p}]
    /\ holds' = [holds EXCEPT ![p] = IF ret[p] = "true" THEN @ + 1 ELSE @]
    /\ pc' = [pc EXCEPT ![p] = "idle"]
    /\ UNCHANGED <<numthreads, destroyed, frees, released, ret, lastop, calls>>
    /\ UNCHANGED <<vvars, dvars>>

(***************************************************************************)
(* Release(c) == c.Release() == nil.  A caller releases a reference it     *)
(* owns, or calls Release on a handle that is already gone.                *)
(***************************************************************************)
ReleaseEnter(p) ==
    /\ pc[p] = "idle"
    /\ calls[p] < MaxCalls
    /\ holds[p] > 0 \/ destroyed
    /\ LockReady(mu)
    /\ mu' = [mu EXCEPT !.writer = p]
    /\ pc' = [pc EXCEPT ![p] = "rel_wait"]
    /\ ret' = [ret EXCEPT ![p] = "none"]
    /\ lastop' = [lastop EXCEPT ![p] = "Release"]
    /\ calls' = [calls EXCEPT ![p] = @ + 1]
    /\ UNCHANGED <<numthreads, destroyed, frees, released, holds>>
    /\ UNCHANGED <<vvars, dvars>>

ReleaseLock(p) ==
    /\ pc[p] = "rel_wait"
    /\ mu.writer = p
    /\ mu.readers = {}
    /\ pc' = [pc EXCEPT ![p] = "rel_locked"]
    /\ UNCHANGED <<mu, numthreads, destroyed, frees, released, ret, lastop, holds, calls>>
    /\ UNCHANGED <<vvars, dvars>>

ReleasePut(p) ==
    /\ pc[p] = "rel_locked"
    /\ LET r == ContainerRelease(released, numthreads)
       IN  /\ numthreads' = r.n
           /\ destroyed' = (destroyed \/ r.freed)
           /\ frees' = IF r.freed THEN frees + 1 ELSE frees
           /\ released' = r.released
           /\ ret' = [ret EXCEPT ![p] = Bool2Str(ReleaseResult(r.err))]
    /\ pc' = [pc EXCEPT ![p] = "rel_ret"]
    /\ UNCHANGED <<mu, lastop, holds, calls>>
    /\ UNCHANGED <<vvars, dvars>>

ReleaseExit(p) ==
    /\ pc[p] = "rel_ret"
    /\ mu' = [mu EXCEPT !.writer = 0]
    /\ holds' = [holds EXCEPT ![p] = IF ret[p] = "true" THEN @ - 1 ELSE @]
    /\ pc' = [pc EXCEPT ![p] = "idle"]
    /\ UNCHANGED <<numthreads, destroyed, frees, released, ret, lastop, calls>>
    /\ UNCHANGED <<vvars, dvars>>

NextHandle ==
    \E p \in Callers :
        \/ AcquireEnter(p)
        \/ AcquireGet(p)
        \/ AcquireExit(p)
        \/ ReleaseEnter(p)
        \/ ReleaseLock(p)
        \/ ReleasePut(p)
        \/ ReleaseExit(p)

(***************************************************************************)
(* Strings are sequences of one-character strings.                         *)
(***************************************************************************)
Digit == <<"0", "1", "2", "3", "4", "5", "6", "7", "8", "9">>

DevelSuffix == <<"-", "d", "e", "v", "e", "l">>

DevelDisplay == <<" ", "(", "d", "e", "v", "e", "l", ")">>

DevelWord == <<"d", "e", "v", "e", "l">>

MinOf(S) == CHOOSE x \in S : \A y \in S : x <= y

\* strings.Split(s, sep) for a one-character separator
RECURSIVE Split(_, _)
Split(s, sep) ==
    LET at == {i \in 1..Len(s) : s[i] = sep}
    IN  IF at = {} THEN <<s>>
        ELSE LET i == MinOf(at)
             IN  <<SubSeq(s, 1, i - 1)>> \o Split(SubSeq(s, i + 1, Len(s)), sep)

\* strings.Replace(s, old, new, 1): the first occurrence only
ReplaceFirst(s, old, new) ==
    LET at == {i \in 1..(Len(s) - Len(old) + 1) : SubSeq(s, i, i + Len(old) - 1) = old}
    IN  IF at = {} THEN s
        ELSE LET i == MinOf(at)
             IN  SubSeq(s, 1, i - 1) \o new \o SubSeq(s, i + Len(old), Len(s))

\* strings.HasSuffix(s, suffix)
HasSuffix(s, suffix) ==
    /\ Len(s) >= Len(suffix)
    /\ SubSeq(s, Len(s) - Len(suffix) + 1, Len(s)) = suffix

IsDigit(c) == \E i \in 1..10 : Digit[i] = c

DigitVal(c) == (CHOOSE i \in 1..10 : Digit[i] = c) - 1

RECURSIVE DigitsVal(_)
DigitsVal(s) ==
    IF Len(s) = 0 THEN 0
    ELSE 10 * DigitsVal(SubSeq(s, 1, Len(s) - 1)) + DigitVal(s[Len(s)])

\* strconv.Atoi(s): an optional sign, then one or more decimal digits
Atoi(s) ==
    LET signed == Len(s) > 0 /\ s[1] \in {"+", "-"}
        body == IF signed THEN Tail(s) ELSE s
    IN  IF Len(body) = 0 \/ \E i \in 1..Len(body) : ~IsDigit(body[i])
        THEN [ok |-> FALSE, num |-> 0]
        ELSE [ok |-> TRUE,
              num |-> IF signed /\ s[1] = "-" THEN 0 - DigitsVal(body) ELSE DigitsVal(body)]

(***************************************************************************)
(* Version()                                                               *)
(***************************************************************************)
Version(raw) ==
    IF HasSuffix(raw, DevelSuffix)
    THEN SubSeq(raw, 1, Len(raw) - Len(DevelSuffix)) \o DevelDisplay
    ELSE raw

(***************************************************************************)
(* RuntimeLiblxcVersionAtLeast(version, major, minor, micro)               *)
(***************************************************************************)
\* the version with its " (devel)" left as it is
NormalizeDevelSkipped(version) == version

\* version = strings.Replace(version, " (devel)", "-devel", 1)
NormalizeDevel(version) == ReplaceFirst(version, DevelDisplay, DevelSuffix)

\* develParts := strings.Split(parts[partsLen-1], "-")
\* len(develParts) == 2 && develParts[1] == "devel"
IsDevelVersion(parts) ==
    LET develParts == Split(parts[Len(parts)], "-")
    IN  Len(develParts) = 2 /\ develParts[2] = DevelWord

\* the parsing loop with a part that fails to parse read as 0
ParseFieldsErrAsZero(parts) ==
    LET n == IF Len(parts) > 3 THEN 3 ELSE Len(parts)
        field(i) == IF i <= n THEN Atoi(parts[i]).num ELSE -1
    IN  [ok |-> TRUE, maj |-> field(1), min |-> field(2), mic |-> field(3)]

\* the parsing loop with the fields starting at 0
ParseFieldsUnsetAsZero(parts) ==
    LET n == IF Len(parts) > 3 THEN 3 ELSE Len(parts)
        field(i) == IF i <= n THEN Atoi(parts[i]).num ELSE 0
    IN  [ok |-> \A i \in 1..n : Atoi(parts[i]).ok,
         maj |-> field(1), min |-> field(2), mic |-> field(3)]

\* maj, min, mic := -1; for i, v := range parts: stop after three parts, give up on
\* the first part that strconv.Atoi rejects
ParseFields(parts) ==
    LET n == IF Len(parts) > 3 THEN 3 ELSE Len(parts)
        field(i) == IF i <= n THEN Atoi(parts[i]).num ELSE -1
    IN  [ok |-> \A i \in 1..n : Atoi(parts[i]).ok,
         maj |-> field(1), min |-> field(2), mic |-> field(3)]

\* the comparison with equal versions not counted as "at least"
CompareFieldsStrict(maj, min, mic, major, minor, micro) ==
    IF maj > major THEN TRUE
    ELSE IF maj < major THEN FALSE
    ELSE IF min > minor THEN TRUE
    ELSE IF min < minor THEN FALSE
    ELSE IF mic > micro THEN TRUE
    ELSE FALSE

CompareFields(maj, min, mic, major, minor, micro) ==
    IF maj > major THEN TRUE
    ELSE IF maj < major THEN FALSE
    ELSE IF min > minor THEN TRUE
    ELSE IF min < minor THEN FALSE
    ELSE IF mic > micro THEN TRUE
    ELSE IF mic < micro THEN FALSE
    ELSE TRUE

RuntimeLiblxcVersionAtLeast(version, major, minor, micro) ==
    LET stripped == Split(version, "~")[1]
        parts == Split(NormalizeDevel(stripped), ".")
    IN  IF Len(parts) = 0 THEN FALSE
        ELSE IF IsDevelVersion(parts) THEN TRUE
        ELSE LET f == ParseFields(parts)
             IN  IF ~f.ok THEN FALSE
                 ELSE CompareFields(f.maj, f.min, f.mic, major, minor, micro)

(***************************************************************************)
(* VersionAtLeast(major, minor, micro), against the build's constants      *)
(***************************************************************************)
VersionAtLeast(b, major, minor, micro) ==
    IF b.devel = 1 THEN TRUE
    ELSE IF major > b.major THEN FALSE
    ELSE IF major = b.major /\ minor > b.minor THEN FALSE
    ELSE IF major = b.major /\ minor = b.minor /\ micro > b.micro THEN FALSE
    ELSE TRUE

(***************************************************************************)
(* HasAPIExtension(extension)                                              *)
(***************************************************************************)
\* the version check made against 3.0.0
HasAPIExtensionGateLow(raw) == RuntimeLiblxcVersionAtLeast(Version(raw), 3, 0, 0)

\* if RuntimeLiblxcVersionAtLeast(Version(), 3, 1, 0)
HasAPIExtensionGate(raw) == RuntimeLiblxcVersionAtLeast(Version(raw), 3, 1, 0)

(***************************************************************************)
(* The inputs of the version functions.  A version string is put together  *)
(* from parts joined by ".", a development marker and an extra after "~".  *)
(***************************************************************************)
MaxNum == 3
MaxReq == 1

RECURSIVE Itoa(_)
Itoa(n) == IF n < 10 THEN <<Digit[n + 1]>> ELSE Itoa(n \div 10) \o <<Digit[(n % 10) + 1]>>

NumTok(n) == [k |-> "num", n |-> n, s |-> Itoa(n)]

JunkTok(s) == [k |-> "junk", n |-> -1, s |-> s]

VersionNums == (0..MaxNum) \cup {10}

Tokens == {NumTok(n) : n \in VersionNums} \cup {JunkTok(<<"x">>), JunkTok(<<>>)}

Markers == {"none", "dash", "paren"}

Extras == {<<>>, <<"~", "x">>}

MarkerText(m) ==
    IF m = "dash" THEN DevelSuffix ELSE IF m = "paren" THEN DevelDisplay ELSE <<>>

RECURSIVE JoinParts(_)
JoinParts(parts) ==
    IF Len(parts) = 1 THEN parts[1].s
    ELSE JoinParts(SubSeq(parts, 1, Len(parts) - 1)) \o <<".">> \o parts[Len(parts)].s

BuildVersion(st) == JoinParts(st.parts) \o MarkerText(st.marker) \o st.extra

St(parts, marker, extra) == [parts |-> parts, marker |-> marker, extra |-> extra]

Ubuntu1 == <<"~", "u", "b", "u", "n", "t", "u", "1">>

\* 3.0.9, 4.0.0, 3.0.10, 3.10.0, 5.0.0-devel, 5.0.0 (devel), 2.1~ubuntu1, 2.x.0,
\* 3.1.0.x, 3.1.0.5-devel, 1x.0.0, +3.1.0, 3.1.0~9 (devel), 2.0.9-devel~ubuntu1
ExampleVersions ==
    { St(<<NumTok(3), NumTok(0), NumTok(9)>>, "none", <<>>),
      St(<<NumTok(4), NumTok(0), NumTok(0)>>, "none", <<>>),
      St(<<NumTok(3), NumTok(0), NumTok(10)>>, "none", <<>>),
      St(<<NumTok(3), NumTok(10), NumTok(0)>>, "none", <<>>),
      St(<<NumTok(5), NumTok(0), NumTok(0)>>, "dash", <<>>),
      St(<<NumTok(5), NumTok(0), NumTok(0)>>, "paren", <<>>),
      St(<<NumTok(2), NumTok(1)>>, "none", Ubuntu1),
      St(<<NumTok(2), JunkTok(<<"x">>), NumTok(0)>>, "none", <<>>),
      St(<<NumTok(3), NumTok(1), NumTok(0), JunkTok(<<"x">>)>>, "none", <<>>),
      St(<<NumTok(3), NumTok(1), NumTok(0), NumTok(5)>>, "dash", <<>>),
      St(<<JunkTok(<<"1", "x">>), NumTok(0), NumTok(0)>>, "none", <<>>),
      St(<<[k |-> "num", n |-> 3, s |-> <<"+", "3">>], NumTok(1), NumTok(0)>>, "none", <<>>),
      St(<<NumTok(3), NumTok(1), NumTok(0)>>, "none", <<"~", "9">> \o DevelDisplay),
      St(<<NumTok(2), NumTok(0), NumTok(9)>>, "dash", Ubuntu1) }

VersionInputs ==
    { St(p, m, e) : p \in UNION {[1..n -> Tokens] : n \in 1..3}, m \in Markers, e \in Extras }
        \cup ExampleVersions

ReqNums == 0..MaxReq

Requests ==
    (ReqNums \X ReqNums \X ReqNums)
        \cup {<<3, 1, 0>>, <<99, 99, 99>>, <<2, 1, 0>>, <<2, 0, 9>>}

Builds == [devel : {0, 1}, major : VersionNums, minor : VersionNums, micro : VersionNums]

NoBuild == [devel |-> 0, major |-> 0, minor |-> 0, micro |-> 0]

NoSt == St(<<NumTok(0)>>, "none", <<>>)

VFunctions ==
    {"RuntimeLiblxcVersionAtLeast", "VersionAtLeast", "HasAPIExtension", "HasApiExtension"}

InitVersion ==
    /\ vfn \in VFunctions
    /\ vresult = "none"
    /\ vgate = "none"
    /\ queryCalls = 0
    /\ \/ /\ vfn = "RuntimeLiblxcVersionAtLeast"
          /\ vst \in VersionInputs
          /\ vreq \in Requests
          /\ vbuild = NoBuild
       \/ /\ vfn = "VersionAtLeast"
          /\ vst = NoSt
          /\ vreq \in Requests
          /\ vbuild \in Builds
       \/ /\ vfn \in {"HasAPIExtension", "HasApiExtension"}
          /\ vst \in VersionInputs
          /\ vreq = <<3, 1, 0>>
          /\ vbuild = NoBuild
    /\ vversion = BuildVersion(vst)

CallRuntimeLiblxcVersionAtLeast ==
    /\ vfn = "RuntimeLiblxcVersionAtLeast"
    /\ vresult = "none"
    /\ vresult' = Bool2Str(RuntimeLiblxcVersionAtLeast(vversion, vreq[1], vreq[2], vreq[3]))
    /\ UNCHANGED <<vfn, vst, vversion, vreq, vbuild, vgate, queryCalls>>
    /\ UNCHANGED <<hvars, dvars>>

CallVersionAtLeast ==
    /\ vfn = "VersionAtLeast"
    /\ vresult = "none"
    /\ vresult' = Bool2Str(VersionAtLeast(vbuild, vreq[1], vreq[2], vreq[3]))
    /\ UNCHANGED <<vfn, vst, vversion, vreq, vbuild, vgate, queryCalls>>
    /\ UNCHANGED <<hvars, dvars>>

\* the runtime answers the extension query either way
HasAPIExtensionBody ==
    /\ vresult = "none"
    /\ vgate' = Bool2Str(HasAPIExtensionGate(vversion))
    /\ IF HasAPIExtensionGate(vversion)
       THEN /\ queryCalls' = queryCalls + 1
            /\ \E answer \in BOOLEAN : vresult' = Bool2Str(answer)
       ELSE /\ queryCalls' = queryCalls
            /\ vresult' = "false"
    /\ UNCHANGED <<vfn, vst, vversion, vreq, vbuild>>
    /\ UNCHANGED <<hvars, dvars>>

CallHasAPIExtension ==
    /\ vfn = "HasAPIExtension"
    /\ HasAPIExtensionBody

\* the deprecated spelling calls HasAPIExtension
CallHasApiExtension ==
    /\ vfn = "HasApiExtension"
    /\ HasAPIExtensionBody

NextVersion ==
    \/ CallRuntimeLiblxcVersionAtLeast
    \/ CallVersionAtLeast
    \/ CallHasAPIExtension
    \/ CallHasApiExtension

(***************************************************************************)
(* Discovery.  The runtime's listing primitive reports a count (negative   *)
(* on failure) and fills in that many names; lxc_container_new may fail    *)
(* for any of them.                                                        *)
(***************************************************************************)
MaxNames == 3
MaxNegCount == 2

NamePool == {"c1", "c2", "c3"}

PathArgs == {<<>>, <<"/p">>, <<"/p", "/q">>}

\* if lxcpath != nil && len(lxcpath) == 1 { ...(clxcpath...) } else { ...(nil...) }
PathArg(lxcpath) == IF Len(lxcpath) = 1 THEN lxcpath[1] ELSE "nil"

\* convertNArgs(cnames, size): the first size entries of the array as a slice
convertNArgs(cnames, size) ==
    IF size < 0 \/ size > Len(cnames)
    THEN [names |-> <<>>, panic |-> TRUE]
    ELSE [names |-> SubSeq(cnames, 1, size), panic |-> FALSE]

\* the listing with only a count of zero taken as "none"
NamesResultZeroOnly(size, cnames) ==
    IF size = 0
    THEN [names |-> <<>>, panic |-> FALSE]
    ELSE convertNArgs(cnames, size)

\* if size < 1 { return nil }; return convertNArgs(cnames, size)
NamesResult(size, cnames) ==
    IF size < 1
    THEN [names |-> <<>>, panic |-> FALSE]
    ELSE convertNArgs(cnames, size)

ContainerNames(size, cnames) == NamesResult(size, cnames)

DefinedContainerNames(size, cnames) == NamesResult(size, cnames)

ActiveContainerNames(size, cnames) == NamesResult(size, cnames)

\* NewContainer(name, lxcpath...): made says whether lxc_container_new returned an
\* object; id names that object
NewContainer(name, lxcpath, made, id) ==
    IF ~made
    THEN [c |-> [container |-> 0, name |-> name, path |-> PathArg(lxcpath), verbosity |-> "Quiet"],
          err |-> "ErrNewFailed"]
    ELSE [c |-> [container |-> id, name |-> name, path |-> PathArg(lxcpath), verbosity |-> "Quiet"],
          err |-> "nil"]

\* the loop body appending whatever NewContainer returned
ContainersStepKeepFailed(acc, r) == Append(acc, r.c)

\* if container, err := NewContainer(v, lxcpath...); err == nil { append }
ContainersStep(acc, r) == IF r.err = "nil" THEN Append(acc, r.c) ELSE acc

\* for _, v := range names { ... }; return containers
RECURSIVE ContainersLoop(_, _, _, _, _)
ContainersLoop(names, lxcpath, made, i, acc) ==
    IF i > Len(names) THEN acc
    ELSE ContainersLoop(names, lxcpath, made, i + 1,
                        ContainersStep(acc, NewContainer(names[i], lxcpath, made[i], i)))

ListingPrimitive(fn) ==
    CASE fn \in {"ContainerNames", "Containers"} -> "list_all_containers"
      [] fn \in {"DefinedContainerNames", "DefinedContainers"} -> "list_defined_containers"
      [] fn \in {"ActiveContainerNames", "ActiveContainers"} -> "list_active_containers"

NamesOf(fn, size, cnames) ==
    CASE fn \in {"ContainerNames", "Containers"} -> ContainerNames(size, cnames)
      [] fn \in {"DefinedContainerNames", "DefinedContainers"} ->
            DefinedContainerNames(size, cnames)
      [] fn \in {"ActiveContainerNames", "ActiveContainers"} ->
            ActiveContainerNames(size, cnames)

NameFunctions == {"ContainerNames", "DefinedContainerNames", "ActiveContainerNames"}

HandleFunctions == {"Containers", "DefinedContainers", "ActiveContainers"}

Counts == (0 - MaxNegCount)..MaxNames

\* what the runtime may report: a count, and that many names when it is positive
Listings ==
    { [count |-> k, names |-> ns] :
        k \in Counts, ns \in UNION {[1..n -> NamePool] : n \in 0..MaxNames} }

InitDiscovery ==
    /\ dfn \in NameFunctions \cup HandleFunctions
    /\ dpath \in PathArgs
    /\ dphase = "start"
    /\ dcalled = [primitive |-> "none", path |-> "nil"]
    /\ dcount = 0
    /\ dlisted = <<>>
    /\ dmade = <<>>
    /\ dnames = <<>>
    /\ containers = <<>>
    /\ dnative = <<>>
    /\ dfreed = <<>>
    /\ dreleased = <<>>
    /\ dpanic = FALSE

\* ContainerNames / DefinedContainerNames / ActiveContainerNames
CallNames(fn) ==
    /\ dfn = fn
    /\ dphase = "start"
    /\ \E l \in Listings :
        /\ Len(l.names) = (IF l.count > 0 THEN l.count ELSE 0)
        /\ dcount' = l.count
        /\ dlisted' = l.names
        /\ LET r == NamesOf(fn, l.count, l.names)
           IN  /\ dnames' = r.names
               /\ dpanic' = r.panic
    /\ dcalled' = [primitive |-> ListingPrimitive(fn), path |-> PathArg(dpath)]
    /\ dphase' = "done"
    /\ UNCHANGED <<dfn, dpath, dmade, containers, dnative, dfreed, dreleased>>
    /\ UNCHANGED <<hvars, vvars>>

\* Containers / DefinedContainers / ActiveContainers
CallHandles(fn) ==
    /\ dfn = fn
    /\ dphase = "start"
    /\ \E l \in Listings :
        /\ Len(l.names) = (IF l.count > 0 THEN l.count ELSE 0)
        /\ dcount' = l.count
        /\ dlisted' = l.names
        /\ LET r == NamesOf(fn, l.count, l.names)
           IN  /\ dnames' = r.names
               /\ dpanic' = r.panic
               /\ \E made \in [1..Len(r.names) -> BOOLEAN] :
                    /\ dmade' = made
                    /\ containers' = ContainersLoop(r.names, dpath, made, 1, <<>>)
                    /\ dnative' = [i \in 1..Len(r.names) |-> IF made[i] THEN 1 ELSE 0]
                    /\ dfreed' = [i \in 1..Len(r.names) |-> 0]
                    /\ dreleased' = [i \in 1..Len(containers') |-> FALSE]
    /\ dcalled' = [primitive |-> ListingPrimitive(fn), path |-> PathArg(dpath)]
    /\ dphase' = "done"
    /\ UNCHANGED <<dfn, dpath>>
    /\ UNCHANGED <<hvars, vvars>>

CallContainerNames == CallNames("ContainerNames")

CallDefinedContainerNames == CallNames("DefinedContainerNames")

CallActiveContainerNames == CallNames("ActiveContainerNames")

CallContainers == CallHandles("Containers")

CallDefinedContainers == CallHandles("DefinedContainers")

CallActiveContainers == CallHandles("ActiveContainers")

\* the consumer releases one of the returned handles: Release(containers[k])
ReleaseReturned(k) ==
    /\ dphase = "done"
    /\ k \in 1..Len(containers)
    /\ ~dreleased[k]
    /\ LET id == containers[k].container
           r == ContainerRelease(FALSE, dnative[id])
       IN  /\ dnative' = [dnative EXCEPT ![id] = r.n]
           /\ dfreed' = [dfreed EXCEPT ![id] = IF r.freed THEN @ + 1 ELSE @]
           /\ dreleased' = [dreleased EXCEPT ![k] = ReleaseResult(r.err)]
    /\ UNCHANGED <<dfn, dpath, dphase, dcalled, dcount, dlisted, dmade, dnames, containers,
                   dpanic>>
    /\ UNCHANGED <<hvars, vvars>>

NextDiscovery ==
    \/ CallContainerNames
    \/ CallDefinedContainerNames
    \/ CallActiveContainerNames
    \/ CallContainers
    \/ CallDefinedContainers
    \/ CallActiveContainers
    \/ \E k \in 1..MaxNames : ReleaseReturned(k)

IdleDiscovery ==
    /\ dfn = "none"
    /\ dpath = <<>>
    /\ dphase = "start"
    /\ dcalled = [primitive |-> "none", path |-> "nil"]
    /\ dcount = 0
    /\ dlisted = <<>>
    /\ dmade = <<>>
    /\ dnames = <<>>
    /\ containers = <<>>
    /\ dnative = <<>>
    /\ dfreed = <<>>
    /\ dreleased = <<>>
    /\ dpanic = FALSE

(***************************************************************************)
(* The specifications.  Each leaves the other parts of the state alone.    *)
(***************************************************************************)
IdleVersion ==
    /\ vfn = "none"
    /\ vst = NoSt
    /\ vversion = BuildVersion(NoSt)
    /\ vreq = <<0, 0, 0>>
    /\ vbuild = NoBuild
    /\ vgate = "none"
    /\ vresult = "none"
    /\ queryCalls = 0

Init == InitHandle /\ IdleVersion /\ IdleDiscovery

Next == NextHandle

Spec == Init /\ [][Next]_vars

InitSpecVersion == InitVersion /\ InitHandle /\ IdleDiscovery

SpecVersion == InitSpecVersion /\ [][NextVersion]_vars

InitSpecDiscovery == InitDiscovery /\ InitHandle /\ IdleVersion

SpecDiscovery == InitSpecDiscovery /\ [][NextDiscovery]_vars

(***************************************************************************)
(* The handle: locking and reference counting (checked under Spec)         *)
(***************************************************************************)
InAcquire(p) == pc[p] \in {"acq_locked", "acq_ret"}

InRelease(p) == pc[p] \in {"rel_locked", "rel_ret"}

\* C1: while a Release is inside its critical section on the handle, no Acquire and
\* no other Release is inside theirs (two Acquire calls may be inside together: the
\* witness).
C1_ReleaseExclusive ==
    \A p \in Callers :
        InRelease(p) => \A q \in Callers \ {p} : ~InRelease(q) /\ ~InAcquire(q)

\* Two Acquire calls inside their shared sections at once, a Release waiting for them.
C1_Witness ==
    \E p, q, r \in Callers :
        /\ p # q
        /\ InAcquire(p)
        /\ InAcquire(q)
        /\ pc[r] = "rel_wait"

\* C2: once the last reference is gone, no step changes the reference count or frees
\* the native object again, and no Acquire or Release returns true any more; the
\* native object is freed at most once.
C2_RejectedAfterLastRelease ==
    [][ /\ frees' <= 1
        /\ destroyed =>
             /\ destroyed'
             /\ numthreads' = numthreads
             /\ frees' = frees
             /\ \A p \in Callers : ret'[p] = "true" => ret[p] = "true" ]_vars

\* After the destruction one caller's Release and another's Acquire both returned false.
C2_Witness ==
    /\ destroyed
    /\ numthreads = 0
    /\ frees = 1
    /\ \E p, q \in Callers :
        /\ pc[p] = "idle" /\ lastop[p] = "Release" /\ ret[p] = "false"
        /\ pc[q] = "idle" /\ lastop[q] = "Acquire" /\ ret[q] = "false"

\* the references a caller owns, counting a call that has taken effect and not yet returned
Owned(p) ==
    holds[p] + (IF pc[p] = "acq_ret" /\ ret[p] = "true" THEN 1 ELSE 0)
             - (IF pc[p] = "rel_ret" /\ ret[p] = "true" THEN 1 ELSE 0)

OwnedAll == SumOver([p \in Callers |-> Owned(p)], Callers)

\* C3: in every interleaving the reference count equals the references the callers
\* own by the return values they saw (no increment or decrement is lost), and the
\* native object is alive as long as one reference is owned; so N successful
\* Acquires followed by N Releases leave the count where it was.
C3_RefBalance ==
    /\ numthreads = OwnedAll
    /\ OwnedAll >= 1 => ~destroyed /\ frees = 0
    /\ \A p \in Callers : holds[p] >= 0

\* Callers 2 and 3 each acquired and released; the count is back at the creator's one.
C3_Witness ==
    /\ \A p \in Callers : pc[p] = "idle"
    /\ holds = [p \in Callers |-> IF p = 1 THEN 1 ELSE 0]
    /\ calls[1] = 0
    /\ \A p \in {2, 3} : calls[p] = 2 /\ lastop[p] = "Release" /\ ret[p] = "true"
    /\ numthreads = 1
    /\ ~destroyed

(***************************************************************************)
(* The version functions (checked under SpecVersion)                       *)
(***************************************************************************)
LexGE(v, r) ==
    \/ v[1] > r[1]
    \/ v[1] = r[1] /\ v[2] > r[2]
    \/ v[1] = r[1] /\ v[2] = r[2] /\ v[3] >= r[3]

Returned(fn) == vfn = fn /\ vresult # "none"

\* the string is "a.b.c" for non-negative a, b, c written in decimal
IsPlainTriple(st) ==
    /\ Len(st.parts) = 3
    /\ \A i \in 1..3 : st.parts[i].k = "num" /\ st.parts[i].s = Itoa(st.parts[i].n)
    /\ st.marker = "none"
    /\ st.extra = <<>>

\* position i of the version as the string was put together: the number, or "junk",
\* or "missing"
FieldKind(st, i) == IF i > Len(st.parts) THEN "missing" ELSE st.parts[i].k

FieldNum(st, i) == IF FieldKind(st, i) = "num" THEN st.parts[i].n ELSE -1

FieldsOf(st) == <<FieldNum(st, 1), FieldNum(st, 2), FieldNum(st, 3)>>

C5_DevelAlwaysAtLeast ==
    /\ Returned("RuntimeLiblxcVersionAtLeast") /\ vst.marker \in {"dash", "paren"}
         => vresult = "true"
    /\ vfn \in {"HasAPIExtension", "HasApiExtension"} /\ vresult # "none"
         /\ vst.marker \in {"dash", "paren"}
         => vgate = "true"

\* "5.0.0 (devel)" satisfies (99, 99, 99).
C5_Witness ==
    /\ Returned("RuntimeLiblxcVersionAtLeast")
    /\ vversion = <<"5", ".", "0", ".", "0">> \o DevelDisplay
    /\ vreq = <<99, 99, 99>>
    /\ vresult = "true"

\* C6 as claimed: a version string whose leading component does not parse never
\* satisfies a request, whatever else it contains.
C6_Original ==
    Returned("RuntimeLiblxcVersionAtLeast") /\ FieldKind(vst, 1) = "junk"
        => vresult = "false"

\* C6, amended: a version string that carries no development marker and whose
\* leading component does not parse never satisfies a request.
C6_FailClosedUnlessDevel ==
    Returned("RuntimeLiblxcVersionAtLeast") /\ FieldKind(vst, 1) = "junk"
        /\ vst.marker = "none"
        => vresult = "false"

\* "x.1.0" does not satisfy (0, 0, 0).
C6_Witness ==
    /\ Returned("RuntimeLiblxcVersionAtLeast")
    /\ vversion = <<"x", ".", "1", ".", "0">>
    /\ vreq = <<0, 0, 0>>
    /\ vresult = "false"

Below310(st) ==
    /\ st.marker = "none"
    /\ \A i \in 1..3 : FieldKind(st, i) # "junk"
    /\ FieldKind(st, 1) = "num"
    /\ ~LexGE(FieldsOf(st), <<3, 1, 0>>)

\* C10: HasAPIExtension calls the runtime's extension query at most once and only
\* when its version check against 3.1.0 returned true; for a runtime version below
\* 3.1.0 it returns false without calling the query.
C10_QueryGated ==
    vfn \in {"HasAPIExtension", "HasApiExtension"} /\ vresult # "none"
        => /\ queryCalls <= 1
           /\ queryCalls = 1 => vgate = "true"
           /\ vgate = "false" => queryCalls = 0 /\ vresult = "false"
           /\ Below310(vst) => queryCalls = 0 /\ vresult = "false"

\* On a runtime reporting "3.0.9" the query was not called and the answer is false.
C10_Witness ==
    /\ vfn = "HasAPIExtension"
    /\ vversion = <<"3", ".", "0", ".", "9">>
    /\ vresult = "false"
    /\ queryCalls = 0
    /\ vgate = "false"

(***************************************************************************)
(* Discovery (checked under SpecDiscovery)                                 *)
(***************************************************************************)
MadeAt == {i \in 1..Len(dnames) : dmade[i]}

\* C8: a handle listing returns one handle per listed name whose creation succeeded,
\* in listing order, skips the others without an error, and each returned handle
\* holds one reference of its own: releasing it frees its native object and leaves
\* the other handles' references alone.
C8_HandlesPerCreatedName ==
    dphase = "done" /\ dfn \in HandleFunctions
        => /\ ~dpanic
           /\ Len(containers) = Cardinality(MadeAt)
           /\ \A k \in 1..Len(containers) :
                /\ containers[k].container \in MadeAt
                /\ containers[k].name = dnames[containers[k].container]
                /\ dnative[containers[k].container] = (IF dreleased[k] THEN 0 ELSE 1)
                /\ dfreed[containers[k].container] = (IF dreleased[k] THEN 1 ELSE 0)
           /\ \A k, l \in 1..Len(containers) :
                k < l => containers[k].container < containers[l].container

\* Three names, the second failed: two handles, the first released, the other not.
C8_Witness ==
    /\ dphase = "done"
    /\ dfn = "DefinedContainers"
    /\ Len(dnames) = 3
    /\ dmade = <<TRUE, FALSE, TRUE>>
    /\ Len(containers) = 2
    /\ dreleased = <<TRUE, FALSE>>
    /\ dnative = <<0, 0, 1>>

\* C9: when the listing primitive reports a count below one, every name listing
\* returns the empty sequence and does not fail, with or without a path.
C9_NoNamesBelowOne ==
    dphase = "done" /\ dcount < 1
        => /\ dnames = <<>>
           /\ ~dpanic
           /\ containers = <<>>

\* The active listing under a path reported a negative count and returned no names.
C9_Witness ==
    /\ dphase = "done"
    /\ dfn = "ActiveContainerNames"
    /\ dcalled = [primitive |-> "list_active_containers", path |-> "/p"]
    /\ dcount < 0
    /\ dnames = <<>>
    /\ ~dpanic

====
